---- MODULE Spec2Model ----
(***************************************************************************)
(* MoodM8 backend (backend/main.py): the POST /chat handler, the keyword   *)
(* risk scan, prompt assembly, reply extraction and the opt-in Firestore   *)
(* write.                                                                  *)
(*                                                                         *)
(* A Python str is a sequence of one-character strings, so that lower(),   *)
(* substring search, join, slicing and strip() are computed character by   *)
(* character.  Two characters that TLA+ strings cannot hold are named:     *)
(* "EM_DASH" (U+2014) and "I_DOT" (U+0130, capital I with dot above).      *)
(***************************************************************************)
EXTENDS Integers, Sequences, FiniteSets, TLC

VARIABLES
    save_enabled,   \* module global: bool(FIRESTORE_PROJECT)
    db,             \* Firestore collection "saved_sessions": document id -> document
    applied,        \* the document sets Firestore has applied, in the order it applied them
    uuids,          \* how many uuid4 values the process has generated
    pc,             \* per request: where the handler is
    req,            \* per request: the ChatRequest
    session_id,     \* per request: local session_id
    now,            \* per request: local now
    prompt,         \* per request: local prompt
    reply,          \* per request: local reply (crisis branch) / reply_text
    saved,          \* per request: local saved
    io,             \* per request: the outbound calls made so far, in order
    result          \* per request: what the endpoint returned

vars == <<save_enabled, db, applied, uuids, pc, req, session_id, now, prompt, reply,
          saved, io, result>>

\* Number of requests the service handles in one behaviour.
NumRequests == 2

\* backend/main.py:115  reply_text[:200]
SnippetLen == 200

Requests == 1..NumRequests

-----------------------------------------------------------------------------
(* Python values *)

\* None, and a key or attribute that does not exist; neither is a str.
None == <<"#None">>
Absent == <<"#Absent">>

\* bool(v) for an Optional[str]: None and "" are falsy.
Truthy(v) == v # None /\ v # Absent /\ v # <<>>

\* str(v) as an f-string renders it.
Str(v) == IF v = None THEN <<"N","o","n","e">> ELSE v

Min(a, b) == IF a <= b THEN a ELSE b

\* s[:n]
Take(s, n) == SubSeq(s, 1, Min(n, Len(s)))

UpperAZ == <<"A","B","C","D","E","F","G","H","I","J","K","L","M",
             "N","O","P","Q","R","S","T","U","V","W","X","Y","Z">>
LowerAZ == <<"a","b","c","d","e","f","g","h","i","j","k","l","m",
             "n","o","p","q","r","s","t","u","v","w","x","y","z">>

\* str.lower() of one character.  U+0130 lowers to two code points, "i" followed by
\* U+0307 (combining dot above); every other character here lowers to one.
LowerChar(c) ==
    IF \E i \in 1..26 : UpperAZ[i] = c
    THEN <<LowerAZ[CHOOSE i \in 1..26 : UpperAZ[i] = c]>>
    ELSE IF c = "I_DOT" THEN <<"i", "COMBINING_DOT">>
    ELSE <<c>>

RECURSIVE Lower(_)
Lower(s) == IF s = <<>> THEN <<>> ELSE LowerChar(Head(s)) \o Lower(Tail(s))

\* needle in hay
In(needle, hay) ==
    \E i \in 0..(Len(hay) - Len(needle)) : SubSeq(hay, i + 1, i + Len(needle)) = needle

\* sep.join(parts)
RECURSIVE Join(_, _)
Join(sep, parts) ==
    IF parts = <<>> THEN <<>>
    ELSE IF Len(parts) = 1 THEN parts[1]
    ELSE parts[1] \o sep \o Join(sep, Tail(parts))

IsSpace(c) == c \in {" ", "\t", "\n", "\r", "\f"}

RECURSIVE LStrip(_)
LStrip(s) == IF s # <<>> /\ IsSpace(Head(s)) THEN LStrip(Tail(s)) ELSE s

RECURSIVE RStrip(_)
RStrip(s) ==
    IF s # <<>> /\ IsSpace(s[Len(s)]) THEN RStrip(SubSeq(s, 1, Len(s) - 1)) ELSE s

\* str.strip()
Strip(s) == RStrip(LStrip(s))

-----------------------------------------------------------------------------
(* Module constants *)

SYSTEM_PROMPT ==
    <<"Y","o","u"," ","a","r","e"," ","M","o","o","d","M","8"," ","EM_DASH"," ","a"," ","s","h",
      "o","r","t",","," ","e","m","p","a","t","h","e","t","i","c",","," ","n","o","n","-","j",
      "u","d","g","m","e","n","t","a","l"," ","s","u","p","p","o","r","t"," ","a","s","s","i",
      "s","t","a","n","t"," ","f","o","r"," ","y","o","u","n","g"," ","a","d","u","l","t","s",
      "."," ","K","e","e","p"," ","r","e","p","l","i","e","s"," ","c","o","n","c","i","s","e",
      " ","(","2","-","6"," ","s","e","n","t","e","n","c","e","s",")",","," ","a","s","k"," ",
      "o","n","e"," ","g","e","n","t","l","e"," ","c","l","a","r","i","f","y","i","n","g"," ",
      "q","u","e","s","t","i","o","n",","," ","o","f","f","e","r"," ","a"," ","1","-","2"," ",
      "s","i","m","p","l","e"," ","c","o","p","i","n","g"," ","s","t","e","p",","," ","a","n",
      "d"," ","g","i","v","e"," ","s","a","f","e"," ","r","e","s","o","u","r","c","e","s"," ",
      "i","f"," ","t","h","e"," ","u","s","e","r"," ","i","n","d","i","c","a","t","e","s"," ",
      "c","r","i","s","i","s","."," ","D","o"," ","N","O","T"," ","p","r","o","v","i","d","e",
      " ","m","e","d","i","c","a","l"," ","o","r"," ","l","e","g","a","l"," ","a","d","v","i",
      "c","e","."," ","I","f"," ","t","h","e"," ","u","s","e","r"," ","e","x","p","r","e","s",
      "s","e","s"," ","i","n","t","e","n","t"," ","t","o"," ","s","e","l","f","-","h","a","r",
      "m"," ","o","r"," ","i","m","m","e","d","i","a","t","e"," ","d","a","n","g","e","r",",",
      " ","r","e","s","p","o","n","d"," ","w","i","t","h"," ","s","u","p","p","o","r","t","i",
      "v","e",","," ","u","r","g","e","n","t","-","e","s","c","a","l","a","t","i","o","n"," ",
      "l","a","n","g","u","a","g","e"," ","a","n","d"," ","p","r","o","v","i","d","e"," ","e",
      "m","e","r","g","e","n","c","y"," ","r","e","s","o","u","r","c","e"," ","s","u","g","g",
      "e","s","t","i","o","n","s",".">>

CRISIS_REPLY ==
    <<"I","'","m"," ","r","e","a","l","l","y"," ","s","o","r","r","y"," ","EM_DASH"," ","i","t",
      " ","s","o","u","n","d","s"," ","l","i","k","e"," ","y","o","u","'","r","e"," ","i","n",
      " ","s","e","r","i","o","u","s"," ","d","i","s","t","r","e","s","s","."," ","I","f"," ",
      "y","o","u","'","r","e"," ","i","n"," ","I","n","d","i","a"," ","a","n","d"," ","i","n",
      " ","i","m","m","e","d","i","a","t","e"," ","d","a","n","g","e","r",","," ","p","l","e",
      "a","s","e"," ","c","a","l","l"," ","1","1","2"," ","n","o","w"," ","o","r"," ","t","h",
      "e"," ","m","e","n","t","a","l"," ","h","e","a","l","t","h"," ","h","e","l","p","l","i",
      "n","e"," ","K","I","R","A","N",":"," ","1","8","0","0","-","5","9","9","-","0","0","1",
      "9","."," ","I","f"," ","y","o","u"," ","w","a","n","t",","," ","I"," ","c","a","n"," ",
      "c","o","n","n","e","c","t"," ","y","o","u"," ","w","i","t","h"," ","c","o","p","i","n",
      "g"," ","s","t","e","p","s"," ","a","n","d"," ","n","e","a","r","b","y"," ","s","u","p",
      "p","o","r","t"," ","o","p","t","i","o","n","s","."," ","Y","o","u"," ","a","r","e"," ",
      "n","o","t"," ","a","l","o","n","e",".">>

RISK_KEYWORDS ==
    << <<"s","u","i","c","i","d","e">>,
       <<"k","i","l","l"," ","m","y","s","e","l","f">>,
       <<"w","a","n","t"," ","t","o"," ","d","i","e">>,
       <<"e","n","d"," ","m","y"," ","l","i","f","e">>,
       <<"h","u","r","t"," ","m","y","s","e","l","f">>,
       <<"h","u","r","t","i","n","g"," ","m","y","s","e","l","f">>,
       <<"d","i","e"," ","b","y"," ","s","u","i","c","i","d","e">> >>

-----------------------------------------------------------------------------
(* String literals of the handler and of the inputs *)

MsgRough == <<"I"," ","h","a","d"," ","a"," ","r","o","u","g","h"," ","d","a","y">>
MsgEndLife ==
    <<"I"," ","w","a","n","t"," ","t","o"," ","e","n","d"," ","m","y"," ","l","i","f","e">>
MsgUpper == <<"S","U","I","C","I","D","E">>
MsgMixed == <<"i"," ","w","i","l","l"," ","K","i","l","l"," ","M","y","s","e","l","f","!">>
MsgInWord == <<"a","n","t","i","s","u","i","c","i","d","e","p","a","c","t">>
MsgHurting == <<"s","t","o","p"," ","H","u","r","t","i","n","g"," ","M","Y","S","E","L","F">>
MsgWantDie == <<"W","a","n","t"," ","T","o"," ","D","i","e">>
MsgNearMiss == <<"k","i","l","l"," ","m","y"," ","s","e","l","f">>
MsgTwoSpaces == <<"h","u","r","t"," "," ","m","y","s","e","l","f">>
MsgDotted == <<"S","U","I_DOT","C","I_DOT","D","E">>
MsgPrefix == <<"s","u","i","c","i","d">>
MsgEmpty == <<>>
StrUser == <<"u","s","e","r">>
StrAssistant == <<"a","s","s","i","s","t","a","n","t">>
StrNone == <<"N","o","n","e">>
StrHi == <<"h","i">>
StrHello == <<"h","e","l","l","o"," ","t","h","e","r","e">>
StrColonSpace == <<":"," ">>
StrBlankLine == <<"\n","\n">>
ReplyTough ==
    <<"T","h","a","t"," ","s","o","u","n","d","s"," ","t","o","u","g","h",","," ","w","a","n",
      "t"," ","t","o"," ","t","a","l","k"," ","a","b","o","u","t"," ","i","t","?">>
ReplyPadded ==
    <<" "," ","\n"," ","T","h","a","t"," ","s","o","u","n","d","s"," ","t","o","u","g","h",".",
      " ","\n">>
ReplyRepr ==
    <<"G","e","n","e","r","a","t","e","C","o","n","t","e","n","t","R","e","s","p","o","n","s",
      "e","(",")">>
DetailFailed ==
    <<"A","I"," ","g","e","n","e","r","a","t","i","o","n"," ","f","a","i","l","e","d">>
DetailInternal ==
    <<"I","n","t","e","r","n","a","l"," ","S","e","r","v","e","r"," ","E","r","r","o","r">>

-----------------------------------------------------------------------------
(* Pure parts of the handler *)

\* contains_risk without text.lower()
contains_risk_CaseSensitive(text) ==
    \E k \in 1..Len(RISK_KEYWORDS) : In(RISK_KEYWORDS[k], text)

\* contains_risk(text)
contains_risk(text) ==
    LET low == Lower(text)
    IN  \E k \in 1..Len(RISK_KEYWORDS) : In(RISK_KEYWORDS[k], low)

\* str(uuid.uuid4()) for the n-th value generated.  uuid4 draws 122 random bits; the model
\* takes its documented contract, that no two values it returns are equal.
Uuid4Str(n) == <<"uuid4:", ToString(n)>>

\* req.session_id if req.session_id is not None else str(uuid.uuid4())
ResolveSessionId_NoneOnly(given, fresh) == IF given # None THEN given ELSE fresh

\* req.session_id or str(uuid.uuid4())
ResolveSessionId(given, fresh) == IF Truthy(given) THEN given ELSE fresh

\* datetime.datetime.utcnow().isoformat() + "Z", the clock reading t kept as one token
UtcNowIso(t) == <<t, "Z">>

\* m.get(key, default) on a history entry
Get(m, key, default) == IF m[key] = Absent THEN default ELSE m[key]

\* f"{m.get('role','user')}: {m.get('text')}"
RenderEntry(m) == Str(Get(m, "role", StrUser)) \o StrColonSpace \o Str(Get(m, "text", None))

\* if req.history: an Optional[List[dict]] is falsy when None and when empty
HistoryTruthy(h) == ~h.isNone /\ h.items # <<>>

\* BuildPrompt with the new message appended before the history
BuildPrompt_MessageFirst(rq) ==
    LET h == rq.history
        entries == IF HistoryTruthy(h)
                   THEN [i \in 1..Len(h.items) |-> RenderEntry(h.items[i])]
                   ELSE <<>>
        parts == <<SYSTEM_PROMPT>> \o <<StrUser \o StrColonSpace \o rq.message>> \o entries
    IN  Join(StrBlankLine, parts)

\* parts = [SYSTEM_PROMPT]; one part per history entry; "user: <message>"; "\n\n".join(parts)
BuildPrompt(rq) ==
    LET h == rq.history
        entries == IF HistoryTruthy(h)
                   THEN [i \in 1..Len(h.items) |-> RenderEntry(h.items[i])]
                   ELSE <<>>
        parts == <<SYSTEM_PROMPT>> \o entries \o <<StrUser \o StrColonSpace \o rq.message>>
    IN  Join(StrBlankLine, parts)

\* getattr(response, "text", None) or (response.candidates[0].content[0].text
\*     if hasattr(response, "candidates") else str(response))
\* raised: the expression raised (IndexError on an empty list) inside the try block.
ExtractReply(response) ==
    LET t == IF response.text = Absent THEN None ELSE response.text
        c == response.candidates
    IN  IF Truthy(t) THEN [raised |-> FALSE, value |-> t]
        ELSE IF c.present
             THEN IF c.items = <<>> \/ c.items[1].content = <<>>
                  THEN [raised |-> TRUE, value |-> None]
                  ELSE [raised |-> FALSE, value |-> c.items[1].content[1].text]
             ELSE [raised |-> FALSE, value |-> response.repr]

\* if req.save_opt_in_ciphertext
ShouldSave_IgnoreConfig(ciphertext, enabled) == Truthy(ciphertext)

\* if req.save_opt_in_ciphertext and save_enabled
ShouldSave(ciphertext, enabled) == Truthy(ciphertext) /\ enabled

\* doc of the crisis branch
CrisisDoc(sid, ciphertext, created) ==
    [session_id |-> sid, ciphertext |-> ciphertext, created_at |-> created, opt_in |-> TRUE]

\* doc of the non-crisis branch with "snippet": reply_text.strip()[:200]
ChatDoc_Trimmed(sid, ciphertext, created, reply_text) ==
    [session_id |-> sid, ciphertext |-> ciphertext, created_at |-> created, opt_in |-> TRUE,
     snippet |-> Take(Strip(reply_text), SnippetLen)]

\* doc of the non-crisis branch
ChatDoc(sid, ciphertext, created, reply_text) ==
    [session_id |-> sid, ciphertext |-> ciphertext, created_at |-> created, opt_in |-> TRUE,
     snippet |-> Take(reply_text, SnippetLen)]

\* ...set(doc, merge=True): the fields of doc are written over the stored document
FirestoreSet_Merge(d, key, doc) ==
    [k \in DOMAIN d \cup {key} |->
        IF k # key THEN d[k]
        ELSE IF key \notin DOMAIN d THEN doc
        ELSE IF "snippet" \in DOMAIN d[key] /\ "snippet" \notin DOMAIN doc
             THEN [session_id |-> doc.session_id, ciphertext |-> doc.ciphertext,
                   created_at |-> doc.created_at, opt_in |-> doc.opt_in,
                   snippet |-> d[key].snippet]
             ELSE doc]

\* db.collection("saved_sessions").document(key).set(doc): the document is replaced whole
FirestoreSet(d, key, doc) ==
    [k \in DOMAIN d \cup {key} |-> IF k = key THEN doc ELSE d[k]]

\* ChatResponse(session_id=..., reply=..., timestamp=..., saved=...)
ChatResponse(sid, text, ts, sv) ==
    [status |-> 200, session_id |-> sid, reply |-> text, timestamp |-> ts, saved |-> sv]

\* raise HTTPException(status_code=500, detail="AI generation failed")
GenerationFailed == [status |-> 500, detail |-> DetailFailed]

\* an exception that leaves the handler uncaught: the framework answers 500
InternalError == [status |-> 500, detail |-> DetailInternal]

NoResult == [status |-> 0]

\* one call of client.models.generate_content and how it ended: ok with the response it
\* returned, or not ok (it raised)
GenaiCall(contents, out) ==
    [svc |-> "genai", model |-> "gemini-2.5-flash", contents |-> contents,
     max_output_tokens |-> 400, ok |-> ~out.raised, response |-> out.response]

\* one call of db.collection("saved_sessions").document(key).set(doc) and how it ended

FirestoreCall(key, doc, ok) == [svc |-> "firestore", key |-> key, doc |-> doc, ok |-> ok]

-----------------------------------------------------------------------------
(* Inputs *)

HistNone == [isNone |-> TRUE, items |-> <<>>]
Hist(items) == [isNone |-> FALSE, items |-> items]
Entry(role, text) == [role |-> role, text |-> text]

SidS1 == <<"s","1">>
CipherC1 == <<"c","1">>

\* a response of the model service: its text attribute (a str, None, or no such attribute),
\* its candidates attribute (absent, or a list of candidates, each a list of content
\* segments with a text that is a str or None) and str(response)
Candidates(items) == [present |-> TRUE, items |-> items]
NoCandidates == [present |-> FALSE, items |-> <<>>]
Candidate(texts) == [content |-> [i \in 1..Len(texts) |-> [text |-> texts[i]]]]
Response(text, candidates) == [text |-> text, candidates |-> candidates, repr |-> ReplyRepr]

\* a reply longer than the snippet, with leading white space
LongReply == <<" ">> \o [i \in 1..(SnippetLen + 4) |-> IF i % 2 = 1 THEN "a" ELSE "b"]

Returned(response) == [raised |-> FALSE, response |-> response]
Raised == [raised |-> TRUE, response |-> Response(None, NoCandidates)]

\* requests and model outcomes of the concurrent specification
ConcurrentInputs ==
    [ sids     |-> {None, <<>>, SidS1},
      msgs     |-> {MsgRough, MsgEndLife},
      hists    |-> {HistNone},
      ciphers  |-> {None, CipherC1},
      times    |-> {"2025-01-01T00:00:00"},
      outcomes |-> {Raised, Returned(Response(ReplyPadded, NoCandidates))} ]

\* requests and model outcomes of the single-request specification
ChatInputs ==
    [ sids     |-> {None, <<>>, SidS1},
      msgs     |-> {MsgRough, MsgEndLife, MsgUpper, MsgMixed, MsgInWord, MsgHurting,
                    MsgWantDie, MsgNearMiss, MsgTwoSpaces, MsgDotted, MsgPrefix, MsgEmpty},
      hists    |-> {HistNone, Hist(<<>>),
                    Hist(<<Entry(StrUser, StrHi)>>),
                    Hist(<<Entry(Absent, StrHi)>>),
                    Hist(<<Entry(StrUser, Absent)>>),
                    Hist(<<Entry(StrAssistant, StrHello), Entry(StrUser, StrHi)>>)},
      ciphers  |-> {None, <<>>, CipherC1},
      times    |-> {"2025-01-01T00:00:00", "2025-01-01T00:00:00.000001"},
      outcomes |-> {Raised,
                    Returned(Response(ReplyTough, NoCandidates)),
                    Returned(Response(ReplyPadded, NoCandidates)),
                    Returned(Response(LongReply, NoCandidates)),
                    Returned(Response(None, Candidates(<<Candidate(<<ReplyTough>>)>>))),
                    Returned(Response(<<>>, Candidates(<<Candidate(<<ReplyPadded>>)>>))),
                    Returned(Response(Absent, NoCandidates)),
                    Returned(Response(<<>>, NoCandidates)),
                    Returned(Response(None, Candidates(<<>>))),
                    Returned(Response(None, Candidates(<<Candidate(<<None>>)>>)))} ]

\* the ids the process has generated so far (a client may send one back)
Issued == {Uuid4Str(n) : n \in 1..uuids}

-----------------------------------------------------------------------------
(* State machine *)

NoRequest ==
    [session_id |-> None, message |-> <<>>, history |-> HistNone,
     save_opt_in_ciphertext |-> None]

Init ==
    /\ save_enabled \in BOOLEAN
    /\ db = <<>>
    /\ applied = <<>>
    /\ uuids = 0
    /\ pc = [r \in Requests |-> "idle"]
    /\ req = [r \in Requests |-> NoRequest]
    /\ session_id = [r \in Requests |-> None]
    /\ now = [r \in Requests |-> None]
    /\ prompt = [r \in Requests |-> None]
    /\ reply = [r \in Requests |-> None]
    /\ saved = [r \in Requests |-> FALSE]
    /\ io = [r \in Requests |-> <<>>]
    /\ result = [r \in Requests |-> NoResult]

\* chat(req), lines 56-67 and 86-93: resolve the session id, read the clock, scan the
\* message, and either take the fixed crisis reply or build the prompt.  Requests are
\* numbered in the order in which they arrive.
Chat_Start(r, inputs) ==
    /\ pc[r] = "idle"
    /\ IF r = 1 THEN TRUE ELSE pc[r - 1] # "idle"
    /\ \E given \in inputs.sids \cup Issued, m \in inputs.msgs, h \in inputs.hists,
          c \in inputs.ciphers, t \in inputs.times :
          LET rq == [session_id |-> given, message |-> m, history |-> h,
                     save_opt_in_ciphertext |-> c]
          IN  /\ req' = [req EXCEPT ![r] = rq]
              /\ session_id' = [session_id EXCEPT
                                   ![r] = ResolveSessionId(given, Uuid4Str(uuids + 1))]
              /\ uuids' = IF Truthy(given) THEN uuids ELSE uuids + 1
              /\ now' = [now EXCEPT ![r] = UtcNowIso(t)]
              /\ IF contains_risk(m)
                 THEN /\ reply' = [reply EXCEPT ![r] = CRISIS_REPLY]
                      /\ pc' = [pc EXCEPT ![r] = "crisis_save"]
                      /\ UNCHANGED prompt
                 ELSE /\ prompt' = [prompt EXCEPT ![r] = BuildPrompt(rq)]
                      /\ pc' = [pc EXCEPT ![r] = "generate"]
                      /\ UNCHANGED reply
    /\ UNCHANGED <<save_enabled, db, applied, saved, io, result>>

\* TrySet with saved = True assigned before the write
TrySet_SavedFirst(r, doc, sv) ==
    \E ok \in BOOLEAN :
        /\ io' = [io EXCEPT ![r] = Append(@, FirestoreCall(session_id[r], doc, ok))]
        /\ db' = IF ok THEN FirestoreSet(db, session_id[r], doc) ELSE db
        /\ applied' = IF ok
                      THEN Append(applied, [by |-> r, key |-> session_id[r], doc |-> doc])
                      ELSE applied
        /\ sv = TRUE

\* the try block around db...set(doc): the write is attempted once; it succeeds, or it
\* raises and the exception is swallowed
TrySet(r, doc, sv) ==
    \E ok \in BOOLEAN :
        /\ io' = [io EXCEPT ![r] = Append(@, FirestoreCall(session_id[r], doc, ok))]
        /\ db' = IF ok THEN FirestoreSet(db, session_id[r], doc) ELSE db
        /\ applied' = IF ok
                      THEN Append(applied, [by |-> r, key |-> session_id[r], doc |-> doc])
                      ELSE applied
        /\ sv = ok

\* chat(req), lines 68-84: the crisis branch's optional write and its response
Chat_CrisisSave(r) ==
    /\ pc[r] = "crisis_save"
    /\ \E sv \in BOOLEAN :
          /\ IF ShouldSave(req[r].save_opt_in_ciphertext, save_enabled)
             THEN TrySet(r, CrisisDoc(session_id[r], req[r].save_opt_in_ciphertext, now[r]), sv)
             ELSE sv = FALSE /\ UNCHANGED <<io, db, applied>>
          /\ saved' = [saved EXCEPT ![r] = sv]
          /\ result' = [result EXCEPT ![r] = ChatResponse(session_id[r], reply[r], now[r], sv)]
    /\ pc' = [pc EXCEPT ![r] = "done"]
    /\ UNCHANGED <<save_enabled, uuids, req, session_id, now, prompt, reply>>

\* Chat_Generate with a failed call answered by an empty reply instead of an error
Chat_Generate_Fallback(r, inputs) ==
    /\ pc[r] = "generate"
    /\ \E out \in inputs.outcomes :
          LET ex == ExtractReply(out.response)
          IN  /\ io' = [io EXCEPT ![r] = Append(@, GenaiCall(prompt[r], out))]
              /\ reply' = [reply EXCEPT ![r] = IF out.raised \/ ex.raised THEN <<>>
                                                ELSE ex.value]
              /\ pc' = [pc EXCEPT ![r] = "save"]
              /\ UNCHANGED result
    /\ UNCHANGED <<save_enabled, db, applied, uuids, req, session_id, now, prompt, saved>>

\* Chat_Generate with a failed call tried once more
Chat_Generate_Retry(r, inputs) ==
    /\ pc[r] = "generate"
    /\ \E out \in inputs.outcomes :
          LET ex == ExtractReply(out.response)
          IN  /\ io' = [io EXCEPT ![r] = Append(@, GenaiCall(prompt[r], out))]
              /\ IF out.raised /\ Len(io[r]) = 0
                 THEN UNCHANGED <<result, pc, reply>>
                 ELSE IF out.raised \/ ex.raised
                 THEN /\ result' = [result EXCEPT ![r] = GenerationFailed]
                      /\ pc' = [pc EXCEPT ![r] = "done"]
                      /\ UNCHANGED reply
                 ELSE /\ reply' = [reply EXCEPT ![r] = ex.value]
                      /\ pc' = [pc EXCEPT ![r] = "save"]
                      /\ UNCHANGED result
    /\ UNCHANGED <<save_enabled, db, applied, uuids, req, session_id, now, prompt, saved>>

\* chat(req), lines 95-105: one call of client.models.generate_content, which returns a
\* response or raises; then the reply extraction, inside the same try block
Chat_Generate(r, inputs) ==
    /\ pc[r] = "generate"
    /\ \E out \in inputs.outcomes :
          LET ex == ExtractReply(out.response)
          IN  /\ io' = [io EXCEPT ![r] = Append(@, GenaiCall(prompt[r], out))]
              /\ IF out.raised \/ ex.raised
                 THEN /\ result' = [result EXCEPT ![r] = GenerationFailed]
                      /\ pc' = [pc EXCEPT ![r] = "done"]
                      /\ UNCHANGED reply
                 ELSE /\ reply' = [reply EXCEPT ![r] = ex.value]
                      /\ pc' = [pc EXCEPT ![r] = "save"]
                      /\ UNCHANGED result
    /\ UNCHANGED <<save_enabled, db, applied, uuids, req, session_id, now, prompt, saved>>

\* chat(req), lines 107-122: the non-crisis branch's optional write and its response.
\* reply_text[:200] raises TypeError inside the try block when reply_text is None (no
\* write is made); reply_text.strip() then raises outside any try block.
Chat_Save(r) ==
    /\ pc[r] = "save"
    /\ \E sv \in BOOLEAN :
          /\ IF ShouldSave(req[r].save_opt_in_ciphertext, save_enabled) /\ reply[r] # None
             THEN TrySet(r, ChatDoc(session_id[r], req[r].save_opt_in_ciphertext, now[r],
                                    reply[r]), sv)
             ELSE sv = FALSE /\ UNCHANGED <<io, db, applied>>
          /\ saved' = [saved EXCEPT ![r] = sv]
          /\ result' = [result EXCEPT ![r] =
                           IF reply[r] = None THEN InternalError
                           ELSE ChatResponse(session_id[r], Strip(reply[r]), now[r], sv)]
    /\ pc' = [pc EXCEPT ![r] = "done"]
    /\ UNCHANGED <<save_enabled, uuids, req, session_id, now, prompt, reply>>

\* Requests served concurrently by the hosting runtime's thread pool.
Next ==
    \E r \in Requests :
        \/ Chat_Start(r, ConcurrentInputs)
        \/ Chat_CrisisSave(r)
        \/ Chat_Generate(r, ConcurrentInputs)
        \/ Chat_Save(r)

Spec == Init /\ [][Next]_vars

\* One request, over the wide input sets.
NextChat ==
    \/ Chat_Start(1, ChatInputs)
    \/ Chat_CrisisSave(1)
    \/ Chat_Generate(1, ChatInputs)
    \/ Chat_Save(1)

SpecChat == Init /\ [][NextChat]_vars

-----------------------------------------------------------------------------
(* Properties *)

Started(r) == pc[r] # "idle"
Done(r) == pc[r] = "done"

GenaiCalls(r) == {i \in 1..Len(io[r]) : io[r][i].svc = "genai"}
FirestoreCalls(r) == {i \in 1..Len(io[r]) : io[r][i].svc = "firestore"}

\* The lower-cased message holds some risk keyword at some offset.
MentionsRisk(msg) ==
    LET low == Lower(msg)
    IN  \E k \in 1..Len(RISK_KEYWORDS) :
            \E off \in 0..Len(low) :
                /\ off + Len(RISK_KEYWORDS[k]) <= Len(low)
                /\ \A j \in 1..Len(RISK_KEYWORDS[k]) : low[off + j] = RISK_KEYWORDS[k][j]

\* The caller supplied ciphertext: present and not the empty string.
NonEmpty(v) == v # None /\ Len(v) > 0

\* C1: a request whose lower-cased message contains a risk keyword never calls the model,
\* and its response carries the fixed crisis message, whatever its other fields and
\* whether or not persistence is configured.
C1_RiskGetsCrisisReply ==
    \A r \in Requests :
        Started(r) /\ MentionsRisk(req[r].message) =>
            /\ GenaiCalls(r) = {}
            /\ Done(r) => result[r].status = 200 /\ result[r].reply = CRISIS_REPLY

C1_Witness ==
    /\ Done(1)
    /\ req[1].message = MsgHurting
    /\ req[1].history = Hist(<<Entry(StrUser, StrHi)>>)
    /\ req[1].save_opt_in_ciphertext = CipherC1
    /\ save_enabled
    /\ result[1].reply = CRISIS_REPLY
    /\ io[1] # <<>>

\* The prompt the spec describes: the system instruction, a blank line, every history
\* entry as "<role>: <text>" followed by a blank line, then "user: <message>".
RECURSIVE RenderedHistory(_)
RenderedHistory(items) ==
    IF items = <<>> THEN <<>>
    ELSE (IF items[1].role = Absent THEN StrUser ELSE items[1].role)
         \o <<":", " ">>
         \o (IF items[1].text = Absent THEN StrNone ELSE items[1].text)
         \o <<"\n", "\n">>
         \o RenderedHistory(Tail(items))

ExpectedPrompt(rq) ==
    SYSTEM_PROMPT \o <<"\n", "\n">> \o RenderedHistory(rq.history.items)
        \o <<"u","s","e","r",":"," ">> \o rq.message

\* C2: a request whose message contains no risk keyword makes exactly one model call,
\* whether it fails or not, and passes it the system instruction, the history entries in
\* order as "<role>: <text>" (role "user" when absent) and "user: <message>", joined by
\* blank lines.
C2_OneCallWithPrompt ==
    \A r \in Requests :
        Started(r) /\ ~MentionsRisk(req[r].message) =>
            /\ Cardinality(GenaiCalls(r)) <= 1
            /\ pc[r] # "generate" =>
                  /\ Cardinality(GenaiCalls(r)) = 1
                  /\ io[r][1].svc = "genai"
                  /\ io[r][1].contents = ExpectedPrompt(req[r])

C2_Witness ==
    /\ Done(1)
    /\ req[1].message = MsgNearMiss
    /\ req[1].history = Hist(<<Entry(StrAssistant, StrHello), Entry(StrUser, StrHi)>>)
    /\ Cardinality(GenaiCalls(1)) = 1
    /\ ~io[1][1].ok
    /\ In(StrAssistant \o StrColonSpace \o StrHello \o StrBlankLine \o StrUser, io[1][1].contents)

\* C3: a write is attempted only when the ciphertext is non-empty and persistence is
\* configured; otherwise no write is attempted and a response has saved = false.
C3_WriteOnlyOnOptInAndConfig ==
    \A r \in Requests :
        LET optIn == NonEmpty(req[r].save_opt_in_ciphertext) /\ save_enabled
        IN  /\ FirestoreCalls(r) # {} => optIn
            /\ Started(r) /\ ~optIn =>
                  /\ FirestoreCalls(r) = {}
                  /\ saved[r] = FALSE
                  /\ result[r].status = 200 => result[r].saved = FALSE

C3_Witness ==
    /\ Done(1)
    /\ req[1].save_opt_in_ciphertext = CipherC1
    /\ ~save_enabled
    /\ result[1].status = 200
    /\ result[1].saved = FALSE
    /\ FirestoreCalls(1) = {}

\* C4: when the model call fails, the request has ended with the 500 "AI generation
\* failed" error, it made no Firestore call, and no applied write is its own.
C4_ModelFailureNoWrite ==
    \A r \in Requests :
        (\E i \in GenaiCalls(r) : ~io[r][i].ok) =>
            /\ Done(r)
            /\ result[r] = [status |-> 500, detail |-> DetailFailed]
            /\ FirestoreCalls(r) = {}
            /\ \A j \in 1..Len(applied) : applied[j].by # r

C4_Witness ==
    \E r \in Requests :
        /\ Done(r)
        /\ \E i \in GenaiCalls(r) : ~io[r][i].ok
        /\ req[r].save_opt_in_ciphertext = CipherC1
        /\ save_enabled
        /\ session_id[r] \in DOMAIN db
        /\ result[r].status = 500

\* C5: a failed write does not fail the request: the response is returned with the reply
\* of its branch and saved = false; and saved is true exactly when a write was made and
\* succeeded.
C5_WriteFailureSwallowed ==
    \A r \in Requests :
        Done(r) =>
            /\ (\E i \in FirestoreCalls(r) : ~io[r][i].ok) =>
                  /\ result[r].status = 200
                  /\ result[r].saved = FALSE
                  /\ result[r].reply = IF MentionsRisk(req[r].message) THEN CRISIS_REPLY
                                       ELSE Strip(reply[r])
            /\ result[r].status = 200 =>
                  (result[r].saved <=> \E i \in FirestoreCalls(r) : io[r][i].ok)

C5_Witness ==
    /\ Done(1)
    /\ \E i \in FirestoreCalls(1) : ~io[1][i].ok
    /\ ~MentionsRisk(req[1].message)
    /\ result[1].status = 200
    /\ result[1].reply = ReplyTough
    /\ ~result[1].saved

\* C6: a non-empty session_id comes back unchanged in the response and keys any write;
\* an absent or empty one is replaced by a generated id that differs from the id generated
\* for every other request that omitted it.
C6_SessionIdResolution ==
    \A r \in Requests :
        Started(r) =>
            /\ NonEmpty(req[r].session_id) => session_id[r] = req[r].session_id
            /\ ~NonEmpty(req[r].session_id) =>
                  /\ NonEmpty(session_id[r])
                  /\ \A q \in Requests \ {r} :
                        Started(q) /\ ~NonEmpty(req[q].session_id) =>
                            session_id[q] # session_id[r]
            /\ result[r].status = 200 => result[r].session_id = session_id[r]
            /\ \A i \in FirestoreCalls(r) :
                  io[r][i].key = session_id[r] /\ io[r][i].doc.session_id = session_id[r]

C6_Witness ==
    /\ Done(1) /\ Done(2)
    /\ req[1].session_id = <<>>
    /\ req[2].session_id = None
    /\ result[1].status = 200 /\ result[2].status = 200
    /\ result[1].session_id # result[2].session_id
    /\ FirestoreCalls(2) # {}

\* C7: a request makes at most one model call and at most one Firestore write, and a
\* write that follows a model call comes after that call returned successfully.
C7_CallsSequential ==
    \A r \in Requests :
        /\ Cardinality(GenaiCalls(r)) <= 1
        /\ Cardinality(FirestoreCalls(r)) <= 1
        /\ \A i \in GenaiCalls(r), j \in FirestoreCalls(r) : i < j /\ io[r][i].ok

C7_Witness ==
    \E r \in Requests :
        /\ Done(r)
        /\ GenaiCalls(r) = {1}
        /\ FirestoreCalls(r) = {2}
        /\ io[r][2].ok

\* The reply the spec describes for a returned response: the text field if there is one,
\* else the text of the first segment of the first candidate if there is one, else
\* str(response); trimmed.
DescribedReply(response) ==
    LET c == response.candidates
    IN  Strip(IF response.text # Absent /\ response.text # None THEN response.text
              ELSE IF c.present /\ c.items # <<>> /\ c.items[1].content # <<>>
                      /\ c.items[1].content[1].text # None
                   THEN c.items[1].content[1].text
              ELSE response.repr)

\* C8: every model call that returned yields a ChatResponse, whose reply is the described
\* fallback, trimmed.
C8_ReturnedModelCallYieldsResponse ==
    \A r \in Requests :
        Done(r) =>
            \A i \in GenaiCalls(r) :
                io[r][i].ok =>
                    /\ result[r].status = 200
                    /\ result[r].reply = DescribedReply(io[r][i].response)

\* Every write is keyed by the resolved session id and holds it, the ciphertext as sent,
\* the request's timestamp and opt_in = true, with a snippet only in the non-crisis branch.
RecordFields(r, i) ==
    /\ io[r][i].key = session_id[r]
    /\ io[r][i].doc.session_id = session_id[r]
    /\ io[r][i].doc.ciphertext = req[r].save_opt_in_ciphertext
    /\ io[r][i].doc.created_at = now[r]
    /\ io[r][i].doc.opt_in = TRUE
    /\ "snippet" \in DOMAIN io[r][i].doc <=> ~MentionsRisk(req[r].message)
    /\ Done(r) /\ result[r].status = 200 =>
          /\ result[r].session_id = io[r][i].key
          /\ result[r].timestamp = io[r][i].doc.created_at

\* C9 as stated: ..., and the snippet is the first 200 characters of the reply the
\* response carries.
C9_SnippetOfReturnedReply ==
    \A r \in Requests :
        \A i \in FirestoreCalls(r) :
            /\ RecordFields(r, i)
            /\ Done(r) /\ result[r].status = 200 /\ "snippet" \in DOMAIN io[r][i].doc =>
                  io[r][i].doc.snippet = Take(result[r].reply, SnippetLen)

\* C9 amended: ..., and the snippet is the first 200 characters of the reply text as the
\* model returned it, before the white space around it is trimmed.
C9_SnippetOfUntrimmedReply ==
    \A r \in Requests :
        \A i \in FirestoreCalls(r) :
            /\ RecordFields(r, i)
            /\ "snippet" \in DOMAIN io[r][i].doc =>
                  LET text == ExtractReply(io[r][1].response).value
                  IN  /\ Len(io[r][i].doc.snippet) = Min(SnippetLen, Len(text))
                      /\ \A k \in 1..Len(io[r][i].doc.snippet) :
                            io[r][i].doc.snippet[k] = text[k]

C9_Witness ==
    /\ Done(1)
    /\ FirestoreCalls(1) = {2}
    /\ io[1][2].ok
    /\ Len(io[1][2].doc.snippet) = SnippetLen
    /\ Len(Strip(reply[1])) > SnippetLen
    /\ io[1][2].doc.snippet # Take(result[1].reply, SnippetLen)
    /\ db[session_id[1]] = io[1][2].doc

\* The applied writes to document id, oldest first.
WritesTo(id) == SelectSeq(applied, LAMBDA w : w.key = id)

\* C10: the store holds a document for an id exactly when a write to that id succeeded,
\* and it is the whole document of the latest such write; every applied write is the
\* successful write of a request with that session id.
C10_LatestWriteWins ==
    /\ DOMAIN db = {applied[j].key : j \in 1..Len(applied)}
    /\ \A id \in DOMAIN db : db[id] = WritesTo(id)[Len(WritesTo(id))].doc
    /\ \A j \in 1..Len(applied) :
          /\ applied[j].key = session_id[applied[j].by]
          /\ \E i \in FirestoreCalls(applied[j].by) :
                /\ io[applied[j].by][i].ok
                /\ io[applied[j].by][i].doc = applied[j].doc
    /\ \A r \in Requests :
          (\E i \in FirestoreCalls(r) : io[r][i].ok) <=>
              (\E j \in 1..Len(applied) : applied[j].by = r)

C10_Witness ==
    /\ Len(applied) = 2
    /\ applied[1].key = applied[2].key
    /\ "snippet" \in DOMAIN applied[1].doc
    /\ "snippet" \notin DOMAIN applied[2].doc
    /\ "snippet" \notin DOMAIN db[applied[2].key]
    /\ applied[2].key = Uuid4Str(1)

====
